---- MODULE Spec2Model ----
(***************************************************************************)
(* Model of lib/blocks.js (BlockController of the insight API): the        *)
(* single-block lookup (block), the raw-block lookup (rawBlock), the       *)
(* summary builder (_getBlockSummary) and the date listing (list), with    *)
(* the two LRU caches and the chain tip the node service reports.          *)
(*                                                                         *)
(* Every asynchronous collaborator call is a suspension point: a request   *)
(* sits at the call (its pc names it) until the callback runs, and other   *)
(* requests and tip advances interleave there.                             *)
(***************************************************************************)
EXTENDS Integers, Sequences, FiniteSets, TLC

(***************************************************************************)
(* Bounds of the model.                                                    *)
(***************************************************************************)
InitTip == 5
MaxTip == 6
BlockCacheSize == 2
SummaryCacheSize == 2

(***************************************************************************)
(* Program constants.                                                      *)
(***************************************************************************)
blockCacheConfirmations == 6
BLOCK_LIMIT == 200

(***************************************************************************)
(* The request slots (overlapping requests of the event loop).             *)
(***************************************************************************)
Reqs == {"r1", "r2"}

(***************************************************************************)
(* JavaScript values: undefined / null, and error objects with a code.     *)
(***************************************************************************)
Undefined == "undefined"
Null == "null"
NoErr == [isErr |-> FALSE, code |-> 0, message |-> ""]
Err(c) == [isErr |-> TRUE, code |-> c, message |-> "collaborator"]
ErrCodes == {-5, -8, -1}
Errors == {Err(c) : c \in ErrCodes}

(***************************************************************************)
(* The chain as the node serves it: three blocks, h3 a sibling of h2 at    *)
(* the same height.  The data of a block is fixed; what varies from call   *)
(* to call is whether a collaborator fails, the tip height and whether the *)
(* node reports the block on the main chain.                               *)
(***************************************************************************)
Hashes == {"h1", "h2", "h3"}
ZeroHash == "0000000000000000000000000000000000000000000000000000000000000000"

HeaderHeight(h) == CASE h = "h1" -> 0
                     [] h = "h2" -> 1
                     [] h = "h3" -> 1

HeaderTime(h) == CASE h = "h1" -> 1704067210
                   [] h = "h2" -> 1704067230
                   [] h = "h3" -> 1704067220

PrevHash(h) == CASE h = "h1" -> ZeroHash
                 [] h = "h2" -> "h1"
                 [] h = "h3" -> "h1"

NextHash(h) == CASE h = "h1" -> "h2"
                 [] h = "h2" -> "h4"
                 [] h = "h3" -> Undefined

TxIds(h) == CASE h = "h1" -> <<"t1">>
              [] h = "h2" -> <<"t2", "t2b">>
              [] h = "h3" -> <<"t3">>

\* the serialized block, byte by byte
RawBytes(h) == CASE h = "h1" -> <<4, 0, 171>>
                 [] h = "h2" -> <<4, 0, 16, 255>>
                 [] h = "h3" -> <<4, 9>>

\* the coinbase input script, decoded as text
CoinbaseScript(h) == CASE h = "h1" -> <<"/", "P", "1", "/">>
                       [] h = "h2" -> <<"x", "/", "P", "2">>
                       [] h = "h3" -> <<"z">>

\* the outputs of the coinbase transaction, as the transaction service
\* resolves them
CoinbaseOutputs(h) ==
    CASE h = "h1" -> << [satoshis |-> 0, address |-> "F"],
                        [satoshis |-> 10, address |-> "A"] >>
      [] h = "h2" -> << [satoshis |-> 250000, address |-> "F"],
                        [satoshis |-> 300000, address |-> "B"],
                        [satoshis |-> 300000, address |-> "C"] >>
      [] h = "h3" -> << [satoshis |-> 250000, address |-> "F"] >>

\* node.getBlock(hash): the bitcore Block
NodeBlock(h) ==
    [hash |-> h, prevHash |-> PrevHash(h), time |-> HeaderTime(h),
     tx |-> TxIds(h), bytes |-> RawBytes(h), script |-> CoinbaseScript(h)]

\* bitcoind.getBlockHeader(hash): the header info; conf is the node-reported
\* confirmations (-1: not on the main chain)
HeaderInfo(h, conf) ==
    [hash |-> h, height |-> HeaderHeight(h), confirmations |-> conf,
     chainWork |-> HeaderHeight(h) + 1,
     nextHash |-> IF conf = -1 THEN Undefined ELSE NextHash(h)]

\* transactionService.getDetailedTransaction(txHash)
DetailedTx(h) == [hash |-> TxIds(h)[1], outputs |-> CoinbaseOutputs(h)]
NoTx == [hash |-> Undefined, outputs |-> <<>>]

(***************************************************************************)
(* getBlockReward: the subsidy of a height, in base units.                 *)
(***************************************************************************)
\* BN.shrn(n): truncating right shift of an arbitrary-precision integer, one
\* bit at a time (no intermediate 2^n, n goes up to 63)
RECURSIVE Shrn(_, _)
Shrn(x, n) == IF n = 0 THEN x ELSE Shrn(x \div 2, n - 1)

\* getBlockReward with the second half of the ramp not shifted by one
getBlockRewardUnshifted(height) ==
    LET subsidy == 20 * 100000000
        halvings == (height - (4000 \div 2)) \div 2102400
    IN  IF height < 4000 THEN (subsidy \div 4000) * height
        ELSE IF halvings >= 64 THEN 0
        ELSE Shrn(subsidy, halvings)

\* getBlockReward with the halvings counted from the end of the ramp
getBlockRewardLateHalving(height) ==
    LET subsidy == 20 * 100000000
        halvings == (height - 4000) \div 2102400
    IN  IF height < (4000 \div 2) THEN (subsidy \div 4000) * height
        ELSE IF height < 4000 THEN (subsidy \div 4000) * (height + 1)
        ELSE IF halvings >= 64 THEN 0
        ELSE Shrn(subsidy, halvings)

\* getBlockReward with the middle payout of the ramp paid, not skipped
getBlockRewardMidpointPaid(height) ==
    LET subsidy == 20 * 100000000
        halvings == (height - (4000 \div 2)) \div 2102400
    IN  IF height <= (4000 \div 2) THEN (subsidy \div 4000) * height
        ELSE IF height < 4000 THEN (subsidy \div 4000) * (height + 1)
        ELSE IF halvings >= 64 THEN 0
        ELSE Shrn(subsidy, halvings)

getBlockReward(height) ==
    LET subsidy == 20 * 100000000
        halvings == (height - (4000 \div 2)) \div 2102400
    IN  IF height < (4000 \div 2) THEN (subsidy \div 4000) * height
        ELSE IF height < 4000 THEN (subsidy \div 4000) * (height + 1)
        ELSE IF halvings >= 64 THEN 0
        ELSE Shrn(subsidy, halvings)

(***************************************************************************)
(* The miner-address loop of transformBlock and _getBlockSummary: acc is   *)
(* the pair (lastBiggestNumber, poolAddress).  output.satoshis !== reward  *)
(* * 0.5 is compared doubled, reward * 0.5 need not be an integer.         *)
(***************************************************************************)
\* the loop keeping the last of the biggest outputs, not the first
RECURSIVE MinerLoopLast(_, _, _)
MinerLoopLast(outputs, reward, acc) ==
    IF outputs = <<>> THEN acc
    ELSE LET output == Head(outputs)
             take == /\ 2 * output.satoshis # reward
                     /\ output.satoshis >= acc.lastBiggestNumber
         IN  MinerLoopLast(Tail(outputs), reward,
                           IF take
                           THEN [lastBiggestNumber |-> output.satoshis,
                                 poolAddress |-> output.address]
                           ELSE acc)

RECURSIVE MinerLoop(_, _, _)
MinerLoop(outputs, reward, acc) ==
    IF outputs = <<>> THEN acc
    ELSE LET output == Head(outputs)
             take == /\ 2 * output.satoshis # reward
                     /\ output.satoshis > acc.lastBiggestNumber
         IN  MinerLoop(Tail(outputs), reward,
                       IF take
                       THEN [lastBiggestNumber |-> output.satoshis,
                             poolAddress |-> output.address]
                       ELSE acc)

MinerAddress(outputs, reward) ==
    MinerLoop(outputs, reward,
              [lastBiggestNumber |-> 0, poolAddress |-> Undefined]).poolAddress

\* the same loop as _getBlockSummary writes it (lines 235-245)
RECURSIVE SummaryMinerLoop(_, _, _)
SummaryMinerLoop(outputs, reward, acc) ==
    IF outputs = <<>> THEN acc
    ELSE LET output == Head(outputs)
         IN  SummaryMinerLoop(Tail(outputs), reward,
                 IF 2 * output.satoshis # reward
                 THEN IF output.satoshis > acc.lastBiggestNumber
                      THEN [lastBiggestNumber |-> output.satoshis,
                            poolAddress |-> output.address]
                      ELSE acc
                 ELSE acc)

SummaryMinerAddress(outputs, reward) ==
    SummaryMinerLoop(outputs, reward,
        [lastBiggestNumber |-> 0, poolAddress |-> Undefined]).poolAddress

(***************************************************************************)
(* getPoolInfo: the first configured search string found in the coinbase   *)
(* script.  The pool table (pools.json) is configuration; its search       *)
(* strings are texts such as "/P1" or the host name "a.b".  None of them   *)
(* is an array index, so for-in visits the keys in insertion order.        *)
(***************************************************************************)
Pools ==
    << [poolName |-> "Pool1", url |-> "u1", searchStrings |-> << <<"/", "P", "1">> >>],
       [poolName |-> "Pool2", url |-> "u2", searchStrings |-> << <<"P", "2">>, <<"/", "P">> >>],
       [poolName |-> "Pool3", url |-> "u3", searchStrings |-> << <<"a", ".", "b">> >>] >>

NoPool == [poolName |-> Undefined, url |-> Undefined]

\* this.poolStrings as the constructor fills it: the keys in insertion order
\* (a key set again keeps its place and takes the new value)
RECURSIVE AddStrings(_, _, _)
AddStrings(table, pool, strs) ==
    IF strs = <<>> THEN table
    ELSE LET s == Head(strs)
             v == [poolName |-> pool.poolName, url |-> pool.url]
             at == {i \in 1..Len(table) : table[i].key = s}
             t2 == IF at = {}
                   THEN Append(table, [key |-> s, value |-> v])
                   ELSE [i \in 1..Len(table) |->
                           IF i \in at THEN [key |-> s, value |-> v] ELSE table[i]]
         IN  AddStrings(t2, pool, Tail(strs))

RECURSIVE BuildPoolStrings(_, _)
BuildPoolStrings(table, pools) ==
    IF pools = <<>> THEN table
    ELSE BuildPoolStrings(AddStrings(table, Head(pools), Head(pools).searchStrings),
                          Tail(pools))

poolStrings == BuildPoolStrings(<<>>, Pools)

\* text.match(k): the string k is compiled as a regular expression, which is
\* searched for in text.  Of the pattern syntax the search strings use only
\* "." (any one character); every other character stands for itself.
Occurs(k, text) ==
    \E i \in 1..(Len(text) - Len(k) + 1) :
       \A j \in 1..Len(k) : k[j] = "." \/ text[i + j - 1] = k[j]

RECURSIVE PoolLoop(_, _)
PoolLoop(table, script) ==
    IF table = <<>> THEN NoPool
    ELSE IF Occurs(Head(table).key, script) THEN Head(table).value
    ELSE PoolLoop(Tail(table), script)

getPoolInfo(block) == PoolLoop(poolStrings, block.script)

(***************************************************************************)
(* transformBlock                                                          *)
(***************************************************************************)
_normalizePrevHash(hash) == IF hash # ZeroHash THEN hash ELSE Null

transformBlock(block, info, transaction) ==
    [hash |-> block.hash,
     size |-> Len(block.bytes),
     height |-> info.height,
     tx |-> block.tx,
     time |-> block.time,
     chainwork |-> info.chainWork,
     confirmations |-> info.confirmations,
     previousblockhash |-> _normalizePrevHash(block.prevHash),
     nextblockhash |-> info.nextHash,
     reward |-> [units |-> getBlockReward(info.height), per |-> 100000000],
     minedBy |-> IF transaction # NoTx
                 THEN MinerAddress(transaction.outputs, getBlockReward(info.height))
                 ELSE Undefined,
     isMainChain |-> (info.confirmations # -1),
     poolInfo |-> getPoolInfo(block)]

(***************************************************************************)
(* lru-cache: a sequence of entries, the most recently used first.         *)
(***************************************************************************)
CacheKeys(cache) == {cache[i].key : i \in 1..Len(cache)}

CacheHas(cache, k) == k \in CacheKeys(cache)

CacheValue(cache, k) ==
    cache[CHOOSE i \in 1..Len(cache) : cache[i].key = k].value

RECURSIVE Without(_, _)
Without(cache, k) ==
    IF cache = <<>> THEN <<>>
    ELSE IF Head(cache).key = k THEN Without(Tail(cache), k)
    ELSE <<Head(cache)>> \o Without(Tail(cache), k)

\* cache.set(k, v): k becomes the most recent entry, the least recently used
\* entries beyond max are dropped
LRUSet(cache, k, v, max) ==
    LET all == <<[key |-> k, value |-> v]>> \o Without(cache, k)
    IN  IF Len(all) > max THEN SubSeq(all, 1, max) ELSE all

\* cache.get(k) on a hit: k becomes the most recent entry
LRUTouch(cache, k) ==
    <<[key |-> k, value |-> CacheValue(cache, k)]>> \o Without(cache, k)

\* Buffer.toString('hex')
HexDigits == <<"0", "1", "2", "3", "4", "5", "6", "7",
               "8", "9", "a", "b", "c", "d", "e", "f">>

RECURSIVE ToHex(_)
ToHex(bytes) ==
    IF bytes = <<>> THEN <<>>
    ELSE <<HexDigits[(Head(bytes) \div 16) + 1], HexDigits[(Head(bytes) % 16) + 1]>>
         \o ToHex(Tail(bytes))

(***************************************************************************)
(* JavaScript numbers that may be NaN, and text as sequences of characters *)
(* (the empty text stands for an absent query parameter as well: both are  *)
(* falsy, and parseInt gives NaN for both).                                *)
(***************************************************************************)
NaN == [nan |-> TRUE, v |-> 0]
Num(n) == [nan |-> FALSE, v |-> n]
Plus(a, n) == IF a.nan THEN NaN ELSE Num(a.v + n)
Truthy(a) == ~a.nan /\ a.v # 0

Digits == <<"0", "1", "2", "3", "4", "5", "6", "7", "8", "9">>
IsDigit(c) == \E i \in 1..10 : Digits[i] = c
DigitValue(c) == (CHOOSE i \in 1..10 : Digits[i] = c) - 1

\* the value of a run of digits
RECURSIVE DigitsValue(_, _)
DigitsValue(str, acc) ==
    IF str = <<>> THEN acc
    ELSE DigitsValue(Tail(str), 10 * acc + DigitValue(Head(str)))

\* the longest prefix of str made of digits
RECURSIVE DigitPrefix(_)
DigitPrefix(str) ==
    IF str = <<>> \/ ~IsDigit(Head(str)) THEN <<>>
    ELSE <<Head(str)>> \o DigitPrefix(Tail(str))

\* parseInt(text): an optional sign, then the leading digits; NaN without any
parseInt(str) ==
    LET neg == str # <<>> /\ Head(str) = "-"
        body == IF str # <<>> /\ Head(str) \in {"-", "+"} THEN Tail(str) ELSE str
        ds == DigitPrefix(body)
    IN  IF ds = <<>> THEN NaN
        ELSE Num(IF neg THEN 0 - DigitsValue(ds, 0) ELSE DigitsValue(ds, 0))

\* Number.prototype.toString of a non-negative integer
RECURSIVE NatToString(_)
NatToString(n) ==
    IF n < 10 THEN <<Digits[n + 1]>>
    ELSE NatToString(n \div 10) \o <<Digits[(n % 10) + 1]>>

(***************************************************************************)
(* Dates: the proleptic Gregorian calendar in UTC, by day number since     *)
(* 1970-01-01.                                                             *)
(***************************************************************************)
DaysFromCivil(y0, m, d) ==
    LET y == IF m <= 2 THEN y0 - 1 ELSE y0
        era == y \div 400
        yoe == y - era * 400
        doy == ((153 * (IF m > 2 THEN m - 3 ELSE m + 9) + 2) \div 5) + d - 1
        doe == yoe * 365 + (yoe \div 4) - (yoe \div 100) + doy
    IN  era * 146097 + doe - 719468

CivilFromDays(z0) ==
    LET z == z0 + 719468
        era == z \div 146097
        doe == z - era * 146097
        yoe == (doe - (doe \div 1460) + (doe \div 36524) - (doe \div 146096)) \div 365
        doy == doe - (365 * yoe + (yoe \div 4) - (yoe \div 100))
        mp == (5 * doy + 2) \div 153
        d == doy - ((153 * mp + 2) \div 5) + 1
        m == IF mp < 10 THEN mp + 3 ELSE mp - 9
    IN  [year |-> (yoe + era * 400) + (IF m <= 2 THEN 1 ELSE 0), month |-> m, day |-> d]

DaysInMonth(y, m) ==
    IF m = 2
    THEN (IF (y % 4 = 0 /\ y % 100 # 0) \/ y % 400 = 0 THEN 29 ELSE 28)
    ELSE IF m \in {4, 6, 9, 11} THEN 30 ELSE 31

\* the pattern \d{4}-\d{2}-\d{2} at position i of str
DatePatternAt(str, i) ==
    /\ i + 9 <= Len(str)
    /\ \A k \in {0, 1, 2, 3, 5, 6, 8, 9} : IsDigit(str[i + k])
    /\ str[i + 4] = "-" /\ str[i + 7] = "-"

\* a pattern that must cover the whole text
DatePatternWhole(str) == Len(str) = 10 /\ DatePatternAt(str, 1)

\* line 280-281: datePattern.test(dateStr); the pattern is not anchored, it is
\* searched for anywhere in the text
DatePatternTest(str) == \E i \in 1..Len(str) : DatePatternAt(str, i)

\* line 291: Math.round(new Date(dateStr).getTime() / 1000).  A text that is
\* a calendar date yyyy-mm-dd is midnight UTC of that day; any other text
\* that reaches this line here (a date followed by other characters, a
\* month or day out of range) is an Invalid Date, whose time is NaN.
DateSeconds(str) ==
    IF Len(str) = 10 /\ DatePatternAt(str, 1)
    THEN LET y == DigitsValue(SubSeq(str, 1, 4), 0)
             m == DigitsValue(SubSeq(str, 6, 7), 0)
             d == DigitsValue(SubSeq(str, 9, 10), 0)
         IN  IF m \in 1..12 /\ d \in 1..DaysInMonth(y, m)
             THEN Num(DaysFromCivil(y, m, d) * 86400)
             ELSE NaN
    ELSE NaN

\* lines 363-369: formatTimestamp(new Date(seconds * 1000)); of an Invalid
\* Date every getter is NaN and the text is NaN-NaN-NaN
formatTimestamp(seconds) ==
    IF seconds.nan
    THEN <<"N", "a", "N", "-", "N", "a", "N", "-", "N", "a", "N">>
    ELSE LET c == CivilFromDays(seconds.v \div 86400)
             yyyy == NatToString(c.year)
             mm == NatToString(c.month)
             dd == NatToString(c.day)
         IN  yyyy \o <<"-">>
                  \o (IF Len(mm) > 1 THEN mm ELSE <<"0", mm[1]>>) \o <<"-">>
                  \o (IF Len(dd) > 1 THEN dd ELSE <<"0", dd[1]>>)

(***************************************************************************)
(* State.                                                                  *)
(*   tipHeight          node.services.bitcoind.height                      *)
(*   blockCache         this.blockCache        (hash -> BlockDetail)       *)
(*   blockSummaryCache  this.blockSummaryCache (hash -> BlockSummary)      *)
(*   reqs               the request in each slot: its handler (op), the    *)
(*                      callback it waits for (pc), the locals of the      *)
(*                      handler, what it put on req (reqBlock, rawBlock),  *)
(*                      for a listing the query, the locals of list, the   *)
(*                      arguments of getBlockHashesByTimestamp (asked),    *)
(*                      the page it follows, if it follows one (page),     *)
(*                      hashes the node returned, the ones kept and the    *)
(*                      summaries built so far (blocks),                   *)
(*                      the err its latest callback was given (err), how   *)
(*                      it ended (res) and the cache reads and             *)
(*                      collaborator calls it made, in order (calls)       *)
(*   calc               one direct call of a function of the controller:   *)
(*                      which one (fn), its arguments, where the call is   *)
(*                      (pc) and what it returned                          *)
(***************************************************************************)
VARIABLES tipHeight, blockCache, blockSummaryCache, reqs, calc

vars == <<tipHeight, blockCache, blockSummaryCache, reqs, calc>>

NoBlock == [hash |-> Undefined]
NoInfo == [hash |-> Undefined]
NoRes == [kind |-> "none", err |-> NoErr]

\* res: next() was called / common.handleErrors(err, res) / res.jsonp(data)
\* / an exception left the callback
ResNext == [kind |-> "next", err |-> NoErr]
ResHandleErrors(err) == [kind |-> "handleErrors", err |-> err]
ResJsonp == [kind |-> "jsonp", err |-> NoErr]
ResThrown == [kind |-> "thrown", err |-> NoErr]

Call(fn, arg) == [fn |-> fn, arg |-> arg]

NoData == [length |-> -1]

IdleReq ==
    [op |-> "none", pc |-> "idle", hash |-> Undefined,
     block |-> NoBlock, info |-> NoInfo, trx |-> NoTx,
     fromCache |-> FALSE, reqBlock |-> NoBlock, rawBlock |-> <<>>,
     query |-> [blockDate |-> <<>>, startTimestamp |-> <<>>, limit |-> <<>>],
     dateStr |-> <<>>, isToday |-> FALSE, gte |-> NaN, lte |-> NaN,
     prev |-> <<>>, next |-> <<>>, limit |-> NaN, more |-> FALSE,
     moreTimestamp |-> NaN, asked |-> [high |-> NaN, low |-> NaN],
     page |-> [followed |-> FALSE, hashes |-> {}, lte |-> NaN],
     returned |-> <<>>, hashes |-> <<>>, blocks |-> <<>>,
     data |-> NoData,
     err |-> NoErr, res |-> NoRes, calls |-> <<>>]

\* no direct call is under way
NoCalc == [fn |-> "none", pc |-> "idle"]

Init ==
    /\ tipHeight = InitTip
    /\ blockCache = <<>>
    /\ blockSummaryCache = <<>>
    /\ reqs = [r \in Reqs |-> IdleReq]
    /\ calc = NoCalc

\* a slot takes a new request once the one before it is answered
Free(r) == reqs[r].pc = "idle"

\* the request in slot r is answered (show and showRaw send what block and
\* rawBlock put on req, handleErrors and list send their own answer) and the
\* slot is free again
Close(r) ==
    /\ reqs[r].pc = "done"
    /\ reqs' = [reqs EXCEPT ![r] = IdleReq]
    /\ UNCHANGED <<tipHeight, blockCache, blockSummaryCache, calc>>

\* the node connects a new block
TipAdvance ==
    /\ tipHeight < MaxTip
    /\ tipHeight' = tipHeight + 1
    /\ UNCHANGED <<blockCache, blockSummaryCache, reqs, calc>>

\* what getBlockHeader reports as confirmations of h: its depth under the
\* tip, or -1 when the node holds the block off the main chain
ReportedConfirmations(h) ==
    {tipHeight - HeaderHeight(h) + 1} \cup (IF h = "h1" THEN {} ELSE {-1})

(***************************************************************************)
(* block (lines 57-90)                                                     *)
(***************************************************************************)
\* the record as it was stored, confirmations not refreshed
StaleRecord(blockCached) == blockCached

\* line 63: the cached record with its confirmations recomputed
Recomputed(blockCached) ==
    [blockCached EXCEPT !.confirmations = tipHeight - blockCached.height + 1]

\* a threshold one too low
CacheableFrom5(blockResult) == blockResult.confirmations >= blockCacheConfirmations - 1

\* the record kept also when the node reports it off the main chain
CacheableOffChain(blockResult) ==
    \/ blockResult.confirmations >= blockCacheConfirmations
    \/ blockResult.confirmations = -1

\* lines 80-82: the record is kept once it has enough confirmations
Cacheable(blockResult) == blockResult.confirmations >= blockCacheConfirmations

\* lines 59-66: the cache is asked first; a hit is answered at once
BlockStart(r, hash) ==
    /\ Free(r)
    /\ IF CacheHas(blockCache, hash)
       THEN LET blockCached == Recomputed(CacheValue(blockCache, hash))
            IN  /\ blockCache' = <<[key |-> hash, value |-> blockCached]>>
                                 \o Without(blockCache, hash)
                /\ reqs' = [reqs EXCEPT ![r] =
                      [IdleReq EXCEPT !.op = "block", !.pc = "done", !.hash = hash,
                                      !.fromCache = TRUE, !.reqBlock = blockCached,
                                      !.res = ResNext,
                                      !.calls = <<Call("blockCache.get", hash)>>]]
       ELSE /\ blockCache' = blockCache
            /\ reqs' = [reqs EXCEPT ![r] =
                      [IdleReq EXCEPT !.op = "block", !.pc = "getBlock", !.hash = hash,
                                      !.calls = <<Call("blockCache.get", hash),
                                                  Call("getBlock", hash)>>]]
    /\ UNCHANGED <<tipHeight, blockSummaryCache, calc>>

\* only one of the two codes recognised
NotFoundOnly5(err) == err.isErr /\ err.code = -5

\* lines 68, 100: the node's "not found" codes
NotFound(err) == (err.isErr /\ err.code = -5) \/ (err.isErr /\ err.code = -8)

\* lines 67-73: the callback of node.getBlock
BlockGetBlockReturn(r) ==
    /\ reqs[r].op = "block" /\ reqs[r].pc = "getBlock"
    /\ \E err \in Errors \cup {NoErr} :
         reqs' = [reqs EXCEPT ![r] =
            IF NotFound(err)
            THEN [reqs[r] EXCEPT !.pc = "done", !.err = err,
                                 !.res = ResHandleErrors(NoErr)]
            ELSE IF err.isErr
            THEN [reqs[r] EXCEPT !.pc = "done", !.err = err,
                                 !.res = ResHandleErrors(err)]
            ELSE [reqs[r] EXCEPT !.pc = "getBlockHeader", !.block = NodeBlock(reqs[r].hash),
                           !.calls = Append(@, Call("getBlockHeader", reqs[r].hash))]]
    /\ UNCHANGED <<tipHeight, blockCache, blockSummaryCache, calc>>

\* lines 73-78: the callback of bitcoind.getBlockHeader
BlockHeaderReturn(r) ==
    /\ reqs[r].op = "block" /\ reqs[r].pc = "getBlockHeader"
    /\ \/ \E err \in Errors :
            reqs' = [reqs EXCEPT ![r] =
               [reqs[r] EXCEPT !.pc = "done", !.err = err,
                               !.res = ResHandleErrors(err)]]
       \/ \E conf \in ReportedConfirmations(reqs[r].hash) :
            reqs' = [reqs EXCEPT ![r] =
               [reqs[r] EXCEPT !.pc = "getDetailedTransaction",
                         !.info = HeaderInfo(reqs[r].hash, conf),
                         !.calls = Append(@, Call("getDetailedTransaction",
                                                  reqs[r].block.tx[1]))]]
    /\ UNCHANGED <<tipHeight, blockCache, blockSummaryCache, calc>>

\* lines 78-85: the callback of getDetailedTransaction; err is not looked at,
\* on a failure trx is undefined
BlockTxReturn(r) ==
    /\ reqs[r].op = "block" /\ reqs[r].pc = "getDetailedTransaction"
    /\ \E err \in Errors \cup {NoErr} :
         LET trx == IF err.isErr THEN NoTx ELSE DetailedTx(reqs[r].hash)
             blockResult == transformBlock(reqs[r].block, reqs[r].info, trx)
         IN  /\ blockCache' = IF Cacheable(blockResult)
                              THEN LRUSet(blockCache, reqs[r].hash, blockResult,
                                          BlockCacheSize)
                              ELSE blockCache
             /\ reqs' = [reqs EXCEPT ![r] =
                   [reqs[r] EXCEPT !.pc = "done", !.err = err, !.trx = trx,
                                   !.reqBlock = blockResult, !.res = ResNext]]
    /\ UNCHANGED <<tipHeight, blockSummaryCache, calc>>

(***************************************************************************)
(* rawBlock (lines 95-111)                                                 *)
(***************************************************************************)
RawBlockStart(r, hash) ==
    /\ Free(r)
    /\ reqs' = [reqs EXCEPT ![r] =
          [IdleReq EXCEPT !.op = "rawBlock", !.pc = "getRawBlock", !.hash = hash,
                          !.calls = <<Call("getRawBlock", hash)>>]]
    /\ UNCHANGED <<tipHeight, blockCache, blockSummaryCache, calc>>

RawBlockReturn(r) ==
    /\ reqs[r].op = "rawBlock" /\ reqs[r].pc = "getRawBlock"
    /\ \E err \in Errors \cup {NoErr} :
         reqs' = [reqs EXCEPT ![r] =
            IF NotFound(err)
            THEN [reqs[r] EXCEPT !.pc = "done", !.err = err,
                                 !.res = ResHandleErrors(NoErr)]
            ELSE IF err.isErr
            THEN [reqs[r] EXCEPT !.pc = "done", !.err = err,
                                 !.res = ResHandleErrors(err)]
            ELSE [reqs[r] EXCEPT !.pc = "done", !.rawBlock = ToHex(RawBytes(reqs[r].hash)),
                           !.res = ResNext]]
    /\ UNCHANGED <<tipHeight, blockCache, blockSummaryCache, calc>>

NextBlock ==
    \/ TipAdvance
    \/ \E r \in Reqs, hash \in Hashes : BlockStart(r, hash)
    \/ \E r \in Reqs : BlockGetBlockReturn(r)
    \/ \E r \in Reqs : BlockHeaderReturn(r)
    \/ \E r \in Reqs : BlockTxReturn(r)
    \/ \E r \in Reqs, hash \in Hashes : RawBlockStart(r, hash)
    \/ \E r \in Reqs : RawBlockReturn(r)
    \/ \E r \in Reqs : Close(r)

SpecBlock == Init /\ [][NextBlock]_vars

(***************************************************************************)
(* _getBlockSummary (lines 193-268) and list (lines 271-348)               *)
(***************************************************************************)
\* the clock of the listing requests: noon of 2024-01-01 UTC, in seconds
Now == Num(1704067200 + 43200)

\* the query texts tried
BlockDates ==
    { <<>>,
      <<"2", "0", "2", "4", "-", "0", "1", "-", "0", "1">>,
      <<"2", "0", "2", "3", "-", "1", "2", "-", "3", "1">>,
      <<"2", "0", "2", "4", "/", "0", "1", "/", "0", "1">>,
      <<"2", "0", "2", "4", "-", "0", "1", "-", "0", "1", "x">> }

StartTimestamps == { <<>>, <<"0">>, <<"1", "7", "0", "4", "0", "6", "7", "2", "2", "5">> }

Limits == { <<>>, <<"0">>, <<"1">>, <<"2">>, <<"-", "1">>, <<"x">> }

FormatError == [isErr |-> TRUE, code |-> 0, message |-> "Please use yyyy-mm-dd format"]

\* all orders of a set of hashes
Orders(S) ==
    {seq \in [1..Cardinality(S) -> S] : \A i, j \in 1..Cardinality(S) : i # j => seq[i] # seq[j]}

\* getBlockHashesByTimestamp(lte, gte): the hashes of the blocks whose time is
\* in the window, in whatever order the index holds them
IndexHashes(lte, gte) ==
    IF lte.nan \/ gte.nan THEN {<<>>}
    ELSE Orders({h \in Hashes : gte.v <= HeaderTime(h) /\ HeaderTime(h) < lte.v})

\* Array.prototype.reverse
RECURSIVE Reverse(_)
Reverse(seq) == IF seq = <<>> THEN <<>> ELSE Reverse(Tail(seq)) \o <<Head(seq)>>

\* Array.prototype.slice(0, end) for an integer end
Slice0(seq, end) ==
    LET to == IF end < 0 THEN (IF Len(seq) + end < 0 THEN 0 ELSE Len(seq) + end)
              ELSE (IF end > Len(seq) THEN Len(seq) ELSE end)
    IN  SubSeq(seq, 1, to)

\* lines 308-311 without the reverse before them
TruncateOldestFirst(returned, limit) ==
    IF ~limit.nan /\ Len(returned) > limit.v
    THEN [more |-> TRUE, hashes |-> Slice0(returned, limit.v)]
    ELSE [more |-> FALSE, hashes |-> returned]

\* lines 306-311: newest first, cut to the limit (a comparison with NaN is
\* false)
Truncate(returned, limit) ==
    LET hashes == Reverse(returned)
    IN  IF ~limit.nan /\ Len(hashes) > limit.v
        THEN [more |-> TRUE, hashes |-> Slice0(hashes, limit.v)]
        ELSE [more |-> FALSE, hashes |-> hashes]

\* blocks left in the order the summaries were built
Unsorted(blocks) == blocks

\* lines 323-325: blocks.sort by b.height - a.height (insertion sort, equal
\* heights keep their order)
RECURSIVE SortByHeight(_)
SortByHeight(blocks) ==
    IF blocks = <<>> THEN <<>>
    ELSE LET rest == SortByHeight(SubSeq(blocks, 1, Len(blocks) - 1))
             b == blocks[Len(blocks)]
             before == {i \in 1..Len(rest) : rest[i].height >= b.height}
             k == Cardinality(before)
         IN  SubSeq(rest, 1, k) \o <<b>> \o SubSeq(rest, k + 1, Len(rest))

\* lines 196-201, finish(result): the parameter moreTimestamp of
\* _getBlockSummary is lowered to result.time; it is a number passed by
\* value, list's own moreTimestamp is another variable
finish(moreTimestamp, result) ==
    [moreTimestamp |-> IF ~moreTimestamp.nan /\ moreTimestamp.v > result.time
                       THEN Num(result.time) ELSE moreTimestamp,
     result |-> result]

\* lines 327-342: the response of a listing
ListData(q, blocks) ==
    LET pagination == [next |-> q.next, prev |-> q.prev,
                       currentTs |-> Plus(q.lte, -1), current |-> q.dateStr,
                       isToday |-> q.isToday, more |-> q.more]
    IN  [blocks |-> blocks, length |-> Len(blocks),
         pagination |-> IF q.more
                        THEN [f \in DOMAIN pagination \cup {"moreTs"} |->
                                IF f = "moreTs" THEN q.moreTimestamp ELSE pagination[f]]
                        ELSE pagination]

\* a threshold that lets every summary in
SummaryCacheableAlways(confirmations) == TRUE

\* line 257
SummaryCacheable(confirmations) == confirmations >= blockCacheConfirmations

\* async.mapSeries from the point where the summaries in q.blocks are
\* delivered: each next hash found in the summary cache is delivered in the
\* same turn (lines 203-206); the first one not found starts getRawBlock
\* (line 208); after the last one the final callback runs (lines 318-345)
\* async.map in place of async.mapSeries: the summary of every hash that is
\* left is started in the same turn
RECURSIVE MapAtOnce(_, _)
MapAtOnce(q, cache) ==
    IF Len(q.blocks) = Len(q.hashes)
    THEN [req |-> [q EXCEPT !.pc = "done", !.res = ResJsonp,
                            !.data = ListData(q, SortByHeight(q.blocks))],
          cache |-> cache]
    ELSE LET hash == q.hashes[Len(q.blocks) + 1]
             got == Append(q.calls, Call("blockSummaryCache.get", hash))
             rest == SubSeq(q.hashes, Len(q.blocks) + 2, Len(q.hashes))
         IN  IF CacheHas(cache, hash)
             THEN MapAtOnce([q EXCEPT !.calls = got,
                                      !.blocks = Append(@, finish(q.moreTimestamp,
                                                    CacheValue(cache, hash)).result)],
                            LRUTouch(cache, hash))
             ELSE [req |-> [q EXCEPT !.pc = "getRawBlock", !.hash = hash,
                                     !.calls = Append(got, Call("getRawBlock", hash))
                                        \o [i \in 1 .. Len(rest) |->
                                               Call("getRawBlock", rest[i])]],
                   cache |-> cache]

RECURSIVE MapSeries(_, _)
MapSeries(q, cache) ==
    IF Len(q.blocks) = Len(q.hashes)
    THEN [req |-> [q EXCEPT !.pc = "done", !.res = ResJsonp,
                            !.data = ListData(q, SortByHeight(q.blocks))],
          cache |-> cache]
    ELSE LET hash == q.hashes[Len(q.blocks) + 1]
             got == Append(q.calls, Call("blockSummaryCache.get", hash))
         IN  IF CacheHas(cache, hash)
             THEN MapSeries([q EXCEPT !.calls = got,
                                      !.blocks = Append(@, finish(q.moreTimestamp,
                                                    CacheValue(cache, hash)).result)],
                            LRUTouch(cache, hash))
             ELSE [req |-> [q EXCEPT !.pc = "getRawBlock", !.hash = hash,
                                     !.calls = Append(got, Call("getRawBlock", hash))],
                   cache |-> cache]

\* the upper bound with req.query.startTimestamp not looked at
UpperBoundDayEnd(startTimestamp, gte) == Plus(gte, 86400)

\* line 294: parseInt(req.query.startTimestamp) || gte + 86400
UpperBound(startTimestamp, gte) ==
    IF Truthy(parseInt(startTimestamp)) THEN parseInt(startTimestamp)
    ELSE Plus(gte, 86400)

\* lines 271-301: the request as list leaves it when it returns, either
\* answered with the format error or waiting for getBlockHashesByTimestamp
ListEntered(blockDate, startTimestamp, limitText) ==
    LET todayStr == formatTimestamp(Now)
        query == [blockDate |-> blockDate, startTimestamp |-> startTimestamp,
                  limit |-> limitText]
        dateStr == IF blockDate # <<>> THEN blockDate ELSE todayStr
        isToday == IF blockDate # <<>> THEN dateStr = todayStr ELSE TRUE
        gte == DateSeconds(dateStr)
        lte == UpperBound(startTimestamp, gte)
        prev == formatTimestamp(Plus(gte, -86400))
        next == IF Truthy(lte) THEN formatTimestamp(lte) ELSE <<>>
        limit == IF limitText # <<>> THEN parseInt(limitText) ELSE Num(BLOCK_LIMIT)
    IN  IF blockDate # <<>> /\ ~DatePatternTest(dateStr)
        THEN [IdleReq EXCEPT !.op = "list", !.pc = "done", !.query = query,
                             !.res = ResHandleErrors(FormatError)]
        ELSE [IdleReq EXCEPT !.op = "list", !.pc = "getBlockHashesByTimestamp",
                             !.query = query, !.dateStr = dateStr,
                             !.isToday = isToday, !.gte = gte, !.lte = lte,
                             !.prev = prev, !.next = next, !.limit = limit,
                             !.more = FALSE, !.moreTimestamp = lte,
                             !.asked = [high |-> lte, low |-> gte],
                             !.calls = <<Call("getBlockHashesByTimestamp", "")>>]

\* a client asks for a listing
ListStart(r, blockDate, startTimestamp, limitText) ==
    /\ Free(r)
    /\ reqs' = [reqs EXCEPT ![r] = ListEntered(blockDate, startTimestamp, limitText)]
    /\ UNCHANGED <<tipHeight, blockCache, blockSummaryCache, calc>>

\* the client of an answered listing that has more = true asks for the next
\* page: the same date and limit, the moreTs of the answer as startTimestamp;
\* page keeps the hashes and the upper bound of the page before (the page
\* that follows is not followed again)
ListFollowUp(r) ==
    /\ reqs[r].op = "list" /\ reqs[r].pc = "done" /\ reqs[r].res = ResJsonp
    /\ reqs[r].data.pagination.more
    /\ ~reqs[r].data.pagination.moreTs.nan
    /\ ~reqs[r].page.followed
    /\ reqs' = [reqs EXCEPT ![r] =
          [ListEntered(reqs[r].query.blockDate,
                       NatToString(reqs[r].data.pagination.moreTs.v),
                       reqs[r].query.limit)
             EXCEPT !.page = [followed |-> TRUE,
                              hashes |-> {reqs[r].data.blocks[i].hash :
                                            i \in 1 .. Len(reqs[r].data.blocks)},
                              lte |-> reqs[r].lte]]]
    /\ UNCHANGED <<tipHeight, blockCache, blockSummaryCache, calc>>

\* lines 301-316: the callback of getBlockHashesByTimestamp
ListHashesReturn(r) ==
    /\ reqs[r].op = "list" /\ reqs[r].pc = "getBlockHashesByTimestamp"
    /\ \/ \E err \in Errors :
            /\ reqs' = [reqs EXCEPT ![r] =
                  [reqs[r] EXCEPT !.pc = "done", !.err = err,
                                  !.res = ResHandleErrors(err)]]
            /\ UNCHANGED blockSummaryCache
       \/ \E returned \in IndexHashes(reqs[r].asked.high, reqs[r].asked.low) :
            LET cut == Truncate(returned, reqs[r].limit)
                run == MapSeries([reqs[r] EXCEPT !.returned = returned,
                                                 !.more = cut.more,
                                                 !.hashes = cut.hashes],
                                 blockSummaryCache)
            IN  /\ reqs' = [reqs EXCEPT ![r] = run.req]
                /\ blockSummaryCache' = run.cache
    /\ UNCHANGED <<tipHeight, blockCache, calc>>

\* lines 208-226: the callback of bitcoind.getRawBlock
SummaryRawBlockReturn(r) ==
    /\ reqs[r].op = "list" /\ reqs[r].pc = "getRawBlock"
    /\ \E err \in Errors \cup {NoErr} :
         reqs' = [reqs EXCEPT ![r] =
            IF err.isErr
            THEN [reqs[r] EXCEPT !.pc = "done", !.err = err,
                                 !.res = ResHandleErrors(err)]
            ELSE [reqs[r] EXCEPT !.pc = "client.getBlock", !.err = err,
                                 !.block = NodeBlock(reqs[r].hash),
                                 !.calls = Append(@, Call("client.getBlock",
                                                          reqs[r].hash))]]
    /\ UNCHANGED <<tipHeight, blockCache, blockSummaryCache, calc>>

\* lines 226-228: the callback of the native getBlock; err is not looked at,
\* on a failure there is no response.result and reading its tx throws
SummaryGetBlockReturn(r) ==
    /\ reqs[r].op = "list" /\ reqs[r].pc = "client.getBlock"
    /\ \E err \in Errors \cup {NoErr} :
         reqs' = [reqs EXCEPT ![r] =
            IF err.isErr
            THEN [reqs[r] EXCEPT !.pc = "done", !.err = err, !.res = ResThrown]
            ELSE [reqs[r] EXCEPT !.pc = "getDetailedTransaction", !.err = err,
                                 !.calls = Append(@, Call("getDetailedTransaction",
                                                          TxIds(reqs[r].hash)[1]))]]
    /\ UNCHANGED <<tipHeight, blockCache, blockSummaryCache, calc>>

\* lines 228-229: the callback of getDetailedTransaction; err is not looked
\* at, on a failure trx is undefined
SummaryTxReturn(r) ==
    /\ reqs[r].op = "list" /\ reqs[r].pc = "getDetailedTransaction"
    /\ \E err \in Errors \cup {NoErr} :
         reqs' = [reqs EXCEPT ![r] =
            [reqs[r] EXCEPT !.pc = "getBlockHeader", !.err = err,
                            !.trx = IF err.isErr THEN NoTx ELSE DetailedTx(reqs[r].hash),
                            !.calls = Append(@, Call("getBlockHeader", reqs[r].hash))]]
    /\ UNCHANGED <<tipHeight, blockCache, blockSummaryCache, calc>>

\* lines 233-255: the summary of the block parsed from blockBuffer
Summary(hash, block, height, trx) ==
    [height |-> height,
     size |-> Len(block.bytes),
     hash |-> hash,
     time |-> block.time,
     txlength |-> Len(block.tx),
     poolInfo |-> getPoolInfo(block),
     minedBy |-> SummaryMinerAddress(trx.outputs, getBlockReward(height))]

\* lines 229-262: the callback of bitcoind.getBlockHeader; reading
\* trx.outputs of an undefined trx throws
SummaryHeaderReturn(r) ==
    /\ reqs[r].op = "list" /\ reqs[r].pc = "getBlockHeader"
    /\ \/ \E err \in Errors :
            /\ reqs' = [reqs EXCEPT ![r] =
                  [reqs[r] EXCEPT !.pc = "done", !.err = err,
                                  !.res = ResHandleErrors(err)]]
            /\ UNCHANGED blockSummaryCache
       \/ /\ reqs[r].trx = NoTx
          /\ reqs' = [reqs EXCEPT ![r] =
                [reqs[r] EXCEPT !.pc = "done", !.err = NoErr, !.res = ResThrown]]
          /\ UNCHANGED blockSummaryCache
       \/ /\ reqs[r].trx # NoTx
          /\ LET hash == reqs[r].hash
                 height == HeaderHeight(hash)
                 summary == Summary(hash, reqs[r].block, height, reqs[r].trx)
                 confirmations == tipHeight - height + 1
                 stored == IF SummaryCacheable(confirmations)
                           THEN LRUSet(blockSummaryCache, hash, summary, SummaryCacheSize)
                           ELSE blockSummaryCache
                 run == MapSeries([reqs[r] EXCEPT !.err = NoErr,
                                      !.blocks = Append(@, finish(reqs[r].moreTimestamp,
                                                                  summary).result)],
                                  stored)
             IN  /\ reqs' = [reqs EXCEPT ![r] = run.req]
                 /\ blockSummaryCache' = run.cache
    /\ UNCHANGED <<tipHeight, blockCache, calc>>

\* the slot that serves the listings
Lister == "r1"

NextList ==
    \/ TipAdvance
    \/ \E blockDate \in BlockDates, startTimestamp \in StartTimestamps, limitText \in Limits :
          ListStart(Lister, blockDate, startTimestamp, limitText)
    \/ ListHashesReturn(Lister)
    \/ SummaryRawBlockReturn(Lister)
    \/ SummaryGetBlockReturn(Lister)
    \/ SummaryTxReturn(Lister)
    \/ SummaryHeaderReturn(Lister)
    \/ Close(Lister)

SpecList == Init /\ [][NextList]_vars

\* the listings with clients that follow the cursor
NextPaging ==
    \/ TipAdvance
    \/ \E blockDate \in BlockDates, startTimestamp \in StartTimestamps, limitText \in Limits :
          ListStart(Lister, blockDate, startTimestamp, limitText)
    \/ ListFollowUp(Lister)
    \/ ListHashesReturn(Lister)
    \/ SummaryRawBlockReturn(Lister)
    \/ SummaryGetBlockReturn(Lister)
    \/ SummaryTxReturn(Lister)
    \/ SummaryHeaderReturn(Lister)
    \/ Close(Lister)

SpecPaging == Init /\ [][NextPaging]_vars

(***************************************************************************)
(* Properties of the single-block and raw-block lookups (SpecBlock).       *)
(***************************************************************************)
\* the step in which request r runs the callback it waits for at pc
Returns(r, op, pc) ==
    /\ reqs[r].op = op /\ reqs[r].pc = pc
    /\ reqs'[r] # reqs[r]

\* request r ended a block lookup that was not answered from the cache
ColdResult(r) ==
    /\ reqs[r].op = "block" /\ reqs[r].pc = "done"
    /\ ~reqs[r].fromCache /\ reqs[r].res = ResNext

\* request r ended a block lookup that was answered from the cache
WarmResult(r) ==
    /\ reqs[r].op = "block" /\ reqs[r].pc = "done"
    /\ reqs[r].fromCache /\ reqs[r].res = ResNext

\* the step in which a block lookup of request r is answered from the cache
WarmRead(r) ==
    /\ Free(r) /\ reqs'[r] # reqs[r]
    /\ reqs'[r].op = "block" /\ reqs'[r].pc = "done" /\ reqs'[r].fromCache

\* C1: a BlockDetail enters the detail cache under H only in the step that
\* ends a lookup of H whose transformed record has confirmations >= 6; a
\* lookup whose record has confirmations <= 5 (5, or the -1 sentinel) leaves
\* the detail cache as it was; one whose record has confirmations >= 6 (6
\* included) leaves H retrievable, holding that record.
C1_DetailCacheGating ==
    [][ /\ \A r \in Reqs :
             Returns(r, "block", "getDetailedTransaction") =>
                LET rec == reqs'[r].reqBlock
                    H == reqs[r].hash
                IN  /\ rec.confirmations <= 5 => blockCache' = blockCache
                    /\ rec.confirmations >= 6 =>
                          /\ CacheHas(blockCache', H)
                          /\ CacheValue(blockCache', H) = rec
        /\ \A H \in Hashes :
             (~CacheHas(blockCache, H) /\ CacheHas(blockCache', H)) =>
                \E r \in Reqs :
                   /\ Returns(r, "block", "getDetailedTransaction")
                   /\ reqs[r].hash = H
                   /\ reqs'[r].reqBlock.confirmations >= 6
      ]_vars

\* C1 witness: one lookup ended with a record of exactly 6 confirmations and
\* its hash is in the cache, another ended with a record of 5 confirmations
\* and its hash is not.
C1_Witness ==
    \E r, q \in Reqs :
       /\ ColdResult(r) /\ reqs[r].reqBlock.confirmations = 6
       /\ CacheHas(blockCache, reqs[r].hash)
       /\ ColdResult(q) /\ reqs[q].reqBlock.confirmations = 5
       /\ ~CacheHas(blockCache, reqs[q].hash)

\* C2: every lookup answered from the detail cache returns confirmations =
\* tip height at that read - height + 1, and leaves that value in the cache.
C2_ConfirmationsNeverStale ==
    [][ \A r \in Reqs :
           WarmRead(r) =>
              /\ reqs'[r].reqBlock.confirmations
                   = tipHeight - reqs'[r].reqBlock.height + 1
              /\ CacheValue(blockCache', reqs'[r].hash) = reqs'[r].reqBlock
      ]_vars

\* C2 witness: a record returned with 6 confirmations by the lookup that
\* built it is returned from the cache with 7 after the tip advanced.
C2_Witness ==
    \E r, q \in Reqs :
       /\ ColdResult(q) /\ reqs[q].reqBlock.confirmations = 6
       /\ WarmResult(r) /\ reqs[r].hash = reqs[q].hash
       /\ reqs[r].reqBlock.confirmations = 7
       /\ tipHeight = reqs[r].reqBlock.height + 6

\* C8: when the callback of getBlock (block) or getRawBlock (rawBlock) is
\* given an error with code -5 or -8, the request ends with handleErrors(null):
\* next is not called, nothing is put on req, no further collaborator is
\* called and the caches stay as they are; given any other error, the request
\* ends with handleErrors of that same error.
C8_NotFoundMapping ==
    [][ \A r \in Reqs :
           (Returns(r, "block", "getBlock") \/ Returns(r, "rawBlock", "getRawBlock")) =>
              LET err == reqs'[r].err
              IN  /\ (err.isErr /\ err.code \in {-5, -8}) =>
                        /\ reqs'[r].pc = "done"
                        /\ reqs'[r].res = ResHandleErrors(NoErr)
                        /\ reqs'[r].reqBlock = NoBlock
                        /\ reqs'[r].rawBlock = <<>>
                        /\ reqs'[r].calls = reqs[r].calls
                        /\ UNCHANGED <<blockCache, blockSummaryCache>>
                  /\ (err.isErr /\ err.code \notin {-5, -8}) =>
                        /\ reqs'[r].pc = "done"
                        /\ reqs'[r].res = ResHandleErrors(err)
                        /\ reqs'[r].calls = reqs[r].calls
                        /\ UNCHANGED <<blockCache, blockSummaryCache>>
      ]_vars

\* C8 witness: a block lookup ended not-found on code -8 while a raw-block
\* lookup ended with the other error it was given.
C8_Witness ==
    \E r, q \in Reqs :
       /\ reqs[r].op = "block" /\ reqs[r].pc = "done"
       /\ reqs[r].err = Err(-8) /\ reqs[r].res = ResHandleErrors(NoErr)
       /\ Len(reqs[r].calls) = 2
       /\ reqs[q].op = "rawBlock" /\ reqs[q].pc = "done"
       /\ reqs[q].err = Err(-1) /\ reqs[q].res = ResHandleErrors(Err(-1))

\* a BlockDetail without its confirmations
ExceptConfirmations(detail) == [detail EXCEPT !.confirmations = 0]

\* C10: for a block with confirmations >= 6, the BlockDetail a lookup with a
\* cold cache returned and the BlockDetail any later lookup of the same hash
\* returns from the cache agree on every field except confirmations, and the
\* later one has confirmations = tip height at its read - height + 1.
C10_ColdWarmRoundTrip ==
    [][ \A r, q \in Reqs :
           ( /\ WarmRead(r)
             /\ ColdResult(q) /\ reqs[q].hash = reqs'[r].hash
             /\ reqs[q].reqBlock.confirmations >= 6 ) =>
              /\ ExceptConfirmations(reqs'[r].reqBlock)
                   = ExceptConfirmations(reqs[q].reqBlock)
              /\ reqs'[r].reqBlock.confirmations
                   = tipHeight - reqs'[r].reqBlock.height + 1
      ]_vars

\* C9: a collaborator call that fails with an error other than not-found
\* (codes -5, -8) ends the request with that error: the request whose latest
\* callback was given such an error is ended by handleErrors of that error,
\* with no block on req and no listing sent.
C9_FailureAborts ==
    \A r \in Reqs :
       (reqs[r].err.isErr /\ reqs[r].err.code \notin {-5, -8}) =>
          /\ reqs[r].pc = "done"
          /\ reqs[r].res = ResHandleErrors(reqs[r].err)
          /\ reqs[r].reqBlock = NoBlock
          /\ reqs[r].data = NoData

(***************************************************************************)
(* Properties of the listing (SpecList).                                   *)
(***************************************************************************)
\* request r ended a listing with its response sent
Listed(r) ==
    reqs[r].op = "list" /\ reqs[r].pc = "done" /\ reqs[r].res = ResJsonp

\* the hashes of a sequence of summaries, and the entries of a cache
HashesOf(blocks) == {blocks[i].hash : i \in 1..Len(blocks)}
Entries(cache) == {cache[i] : i \in 1..Len(cache)}

\* the step in which the getBlockHeader callback of the summary builder
\* completes a summary (the summary is then the next one in blocks)
Builds(r) ==
    /\ Returns(r, "list", "getBlockHeader")
    /\ Len(reqs'[r].blocks) > Len(reqs[r].blocks)

\* C3: the step that builds the summary of H leaves it in the summary cache
\* if and only if tip height - height + 1 >= 6 at that step; with a value <= 5
\* the entries of the summary cache are the ones before the step (H not among
\* them); no summary in the cache or in the request carries a confirmations
\* field.
C3_SummaryCacheGating ==
    [][ /\ \A r \in Reqs :
             /\ Builds(r) =>
                  LET H == reqs[r].hash
                      summary == reqs'[r].blocks[Len(reqs[r].blocks) + 1]
                      confirmations == tipHeight - summary.height + 1
                  IN  /\ summary.hash = H
                      /\ CacheHas(blockSummaryCache', H) <=> confirmations >= 6
                      /\ confirmations >= 6 =>
                            CacheValue(blockSummaryCache', H) = summary
                      /\ confirmations <= 5 =>
                            Entries(blockSummaryCache') = Entries(blockSummaryCache)
             /\ \A i \in 1..Len(reqs'[r].blocks) :
                   "confirmations" \notin DOMAIN reqs'[r].blocks[i]
        /\ (\A r \in Reqs : ~Builds(r)) =>
              Entries(blockSummaryCache') = Entries(blockSummaryCache)
        /\ \A e \in Entries(blockSummaryCache') : "confirmations" \notin DOMAIN e.value
      ]_vars

\* C3 witness: with the tip at 5, a listing built the summaries of h1 (6
\* confirmations) and h2 (5 confirmations) from the node; h1 is in the
\* summary cache and h2 is not.
C3_Witness ==
    \E r \in Reqs :
       /\ Listed(r) /\ tipHeight = 5
       /\ {"h1", "h2"} \subseteq HashesOf(reqs[r].data.blocks)
       /\ \E i, j \in 1..Len(reqs[r].calls) :
             /\ reqs[r].calls[i] = Call("getRawBlock", "h1")
             /\ reqs[r].calls[j] = Call("getRawBlock", "h2")
       /\ CacheHas(blockSummaryCache, "h1")
       /\ ~CacheHas(blockSummaryCache, "h2")

\* the least time among summaries
MinTime(blocks) ==
    CHOOSE t \in {blocks[i].time : i \in 1..Len(blocks)} :
       \A i \in 1..Len(blocks) : t <= blocks[i].time

\* C4: for every listing that returns more = true, moreTs is the minimum
\* time among the summaries returned in blocks.
C4_MoreTsIsMinTime ==
    \A r \in Reqs :
       ( /\ Listed(r)
         /\ reqs[r].data.pagination.more
         /\ reqs[r].data.blocks # <<>> ) =>
          reqs[r].data.pagination.moreTs = Num(MinTime(reqs[r].data.blocks))

\* the statement of C5 for one listing whose limit is L
TruncationAsClaimed(q, L) ==
    LET n == Len(q.returned)
        newestFirst == Reverse(q.returned)
        blocks == q.data.blocks
    IN  /\ n > L =>
              /\ Len(blocks) = L
              /\ HashesOf(blocks) = {newestFirst[i] : i \in 1..L}
              /\ q.data.pagination.more
        /\ n <= L =>
              /\ Len(blocks) = n
              /\ HashesOf(blocks) = {newestFirst[i] : i \in 1..n}
              /\ ~q.data.pagination.more
              /\ "moreTs" \notin DOMAIN q.data.pagination
        /\ q.data.length = Len(blocks)

\* C5 as stated: for every listing, with more hashes returned than the
\* limit the blocks are the summaries of exactly the first limit hashes of
\* the reversed sequence and more = true; with at most limit hashes there is
\* a summary for every hash, more = false and no moreTs; length is the
\* number of blocks.
C5_TruncationAnyLimit ==
    \A r \in Reqs :
       (Listed(r) /\ ~reqs[r].limit.nan) => TruncationAsClaimed(reqs[r], reqs[r].limit.v)

\* C5 amended: the statement holds for every listing whose limit is not
\* negative; with a negative limit -k the blocks are the summaries of the
\* reversed sequence without its last k hashes (none when k exceeds their
\* number) and more = true, whatever the number of hashes; with a limit that
\* is not a number there is a summary for every hash and more = false.
C5_Truncation ==
    \A r \in Reqs :
       Listed(r) =>
          LET L == reqs[r].limit.v
              n == Len(reqs[r].returned)
              newestFirst == Reverse(reqs[r].returned)
              kept == IF n + L > 0 THEN n + L ELSE 0
          IN  /\ (~reqs[r].limit.nan /\ L >= 0) => TruncationAsClaimed(reqs[r], L)
              /\ reqs[r].limit.nan =>
                    /\ Len(reqs[r].data.blocks) = n
                    /\ HashesOf(reqs[r].data.blocks) = {newestFirst[i] : i \in 1..n}
                    /\ ~reqs[r].data.pagination.more
                    /\ reqs[r].data.length = n
              /\ (~reqs[r].limit.nan /\ L < 0) =>
                    /\ Len(reqs[r].data.blocks) = kept
                    /\ HashesOf(reqs[r].data.blocks) = {newestFirst[i] : i \in 1..kept}
                    /\ reqs[r].data.pagination.more
                    /\ reqs[r].data.length = kept

\* C5 witness: the node returned three hashes, the limit is 2, and the
\* listing was sent with two blocks and more = true.
C5_Witness ==
    \E r \in Reqs :
       /\ Listed(r) /\ reqs[r].limit = Num(2) /\ Len(reqs[r].returned) = 3
       /\ Len(reqs[r].data.blocks) = 2 /\ reqs[r].data.pagination.more

\* C6: in every listing sent, blocks is in descending order of height.
C6_SortedByHeight ==
    \A r \in Reqs :
       Listed(r) =>
          LET blocks == reqs[r].data.blocks
          IN  \A i, j \in 1..Len(blocks) :
                 i < j => blocks[i].height >= blocks[j].height

\* C6 witness: a listing of three blocks was sent whose first summary built
\* was the one of the lowest block.
C6_Witness ==
    \E r \in Reqs :
       /\ Listed(r) /\ Len(reqs[r].data.blocks) = 3
       /\ reqs[r].hashes[1] = "h1"
       /\ reqs[r].data.blocks[3].hash = "h1"

\* C7: a listing whose date text is given and is not of the form yyyy-mm-dd
\* ends with the format error and makes no node call and no cache access.
C7_MalformedDateRejected ==
    \A r \in Reqs :
       ( /\ reqs[r].op = "list"
         /\ reqs[r].query.blockDate # <<>>
         /\ ~DatePatternWhole(reqs[r].query.blockDate) ) =>
          /\ reqs[r].pc = "done"
          /\ reqs[r].res = ResHandleErrors(FormatError)
          /\ reqs[r].calls = <<>>

(***************************************************************************)
(* getBlockReward called directly (lines 371-397): a height is drawn, the  *)
(* function is applied to it, then to the next heights, the reward of the  *)
(* height before being kept for comparison.                                *)
(***************************************************************************)
\* consensus.nSubsidySlowStartInterval and nSubsidyHalvingInterval
SlowStartInterval == 4000
HalvingInterval == 2102400
\* the halvings after which the reward is cut to 0
MaxHalvings == 64

\* how many heights in a row one walk applies the function to
WalkLen == 3

\* the first height of the k-th halving
HalvingHeight(k) == (SlowStartInterval \div 2) + k * HalvingInterval

\* the heights a walk starts at: the whole ramp and the first heights after
\* it, and the heights just under each halving up to the cut to 0
RewardStarts ==
    (0 .. SlowStartInterval + 1)
        \cup {HalvingHeight(k) - 2 : k \in 1 .. MaxHalvings + 1}
        \cup {SlowStartInterval + HalvingInterval - 2}

NotComputed == -1

InitReward ==
    /\ tipHeight = InitTip
    /\ blockCache = <<>>
    /\ blockSummaryCache = <<>>
    /\ reqs = [r \in Reqs |-> IdleReq]
    /\ calc \in {[fn |-> "getBlockReward", pc |-> "call", height |-> h,
                   reward |-> NotComputed, before |-> NotComputed,
                   left |-> WalkLen] : h \in RewardStarts}

\* getBlockReward(height) returns
RewardReturn ==
    /\ calc.fn = "getBlockReward"
    /\ calc.pc = "call"
    /\ calc' = [calc EXCEPT !.pc = "returned",
                            !.reward = getBlockReward(calc.height)]
    /\ UNCHANGED <<tipHeight, blockCache, blockSummaryCache, reqs>>

\* the next height is asked for
RewardNextHeight ==
    /\ calc.fn = "getBlockReward"
    /\ calc.pc = "returned"
    /\ calc.left > 1
    /\ calc' = [calc EXCEPT !.pc = "call", !.height = @ + 1,
                            !.before = calc.reward, !.reward = NotComputed,
                            !.left = @ - 1]
    /\ UNCHANGED <<tipHeight, blockCache, blockSummaryCache, reqs>>

NextReward == RewardReturn \/ RewardNextHeight

SpecReward == InitReward /\ [][NextReward]_vars

\* getBlockReward has returned the reward of calc.height
Rewarded == calc.fn = "getBlockReward" /\ calc.pc = "returned"

\* one step of the ramp: base / 4000
RampStep == (20 * 100000000) \div SlowStartInterval

\* C11: on the slow-start ramp the reward of height h is (base / 4000) * h
\* for 0 <= h < 2000 and (base / 4000) * (h + 1) for 2000 <= h < 4000, exact
\* integers; the reward of height 0 is 0.
C11_SlowStartRamp ==
    Rewarded =>
        /\ (0 <= calc.height /\ calc.height < 2000)
               => calc.reward = 500000 * calc.height
        /\ (2000 <= calc.height /\ calc.height < 4000)
               => calc.reward = 500000 * (calc.height + 1)
        /\ calc.height = 0 => calc.reward = 0

\* a reward of the second half of the ramp has been computed
C11_Witness ==
    /\ Rewarded
    /\ calc.height = 3999
    /\ calc.reward = 2000000000
    /\ calc.before = 1999500000

RECURSIVE Pow2(_)
Pow2(n) == IF n = 0 THEN 1 ELSE 2 * Pow2(n - 1)

\* base = 20 * 1e8 is below 2^31: shifted right by 31 bits or more it is 0
BaseShifted(halvings) ==
    IF halvings <= 30 THEN (20 * 100000000) \div Pow2(halvings) ELSE 0

C12_CutReached ==
    /\ Rewarded
    /\ calc.height = HalvingHeight(MaxHalvings)
    /\ calc.reward = 0

\* C13 as stated: the reward of height 2000 is (base / 4000) * 2001, is not
\* the reward of height 1999, and is within one ramp step (base / 4000) of it.
C13_MidpointWithinOneStep ==
    (Rewarded /\ calc.height = 2000 /\ calc.before # NotComputed) =>
        /\ calc.reward = RampStep * 2001
        /\ calc.reward # calc.before
        /\ calc.reward - calc.before <= RampStep
        /\ calc.before - calc.reward <= RampStep

\* C13: the reward of height 2000 is (base / 4000) * 2001 and is exactly two
\* ramp steps above the reward of height 1999, the middle payout base / 2
\* being skipped; every other height of the ramp pays exactly one ramp step
\* more than the height before it.
C13_MidpointSkipped ==
    (Rewarded /\ calc.before # NotComputed) =>
        /\ calc.height = 2000 =>
               /\ calc.reward = RampStep * 2001
               /\ calc.reward # calc.before
               /\ calc.reward - calc.before = 2 * RampStep
               /\ calc.before < 1000000000 /\ 1000000000 < calc.reward
        /\ (calc.height < 4000 /\ calc.height # 2000) =>
               calc.reward - calc.before = RampStep

\* the rewards of heights 1999 and 2000 have been computed one after the other
C13_Witness ==
    /\ Rewarded
    /\ calc.height = 2000
    /\ calc.before = 999500000
    /\ calc.reward = 1000500000

(***************************************************************************)
(* The miner-address guess called directly, through transformBlock (lines  *)
(* 128-140) and through the summary of _getBlockSummary (lines 235-245),   *)
(* on the same coinbase outputs and height.                                *)
(***************************************************************************)
\* how many outputs the coinbase transaction has at most
MaxOutputs == 3

\* heights whose reward is 0, 500000, base, base / 2 and the odd 1953125
MinerHeights == {0, 1, 4000, 2104400, 21026000}

\* amounts: nothing, half the reward of three of the heights
MinerAmounts == {0, 250000, 500000000, 1000000000}

\* the address of the i-th output
MinerAddresses == <<"A", "B", "C", "D", "E">>

MinerOutputs ==
    UNION {{[i \in 1 .. n |->
                [satoshis |-> f[i], address |-> MinerAddresses[i]]]
            : f \in [1 .. n -> MinerAmounts]} : n \in 0 .. MaxOutputs}

NotGuessed == [done |-> FALSE, minedBy |-> Undefined]

InitMiner ==
    /\ tipHeight = InitTip
    /\ blockCache = <<>>
    /\ blockSummaryCache = <<>>
    /\ reqs = [r \in Reqs |-> IdleReq]
    /\ calc \in {[fn |-> "minedBy", pc |-> "call", height |-> h,
                   outputs |-> o, detail |-> NotGuessed,
                   summary |-> NotGuessed]
                  : h \in MinerHeights, o \in MinerOutputs}

\* transformBlock(block, info, transaction) returns the detail record
MinerTransformReturn ==
    /\ calc.fn = "minedBy"
    /\ ~calc.detail.done
    /\ LET info == [HeaderInfo("h2", blockCacheConfirmations)
                       EXCEPT !.height = calc.height]
           transaction == [hash |-> TxIds("h2")[1], outputs |-> calc.outputs]
       IN  calc' = [calc EXCEPT !.detail =
                       [done |-> TRUE,
                        minedBy |-> transformBlock(NodeBlock("h2"), info,
                                                   transaction).minedBy]]
    /\ UNCHANGED <<tipHeight, blockCache, blockSummaryCache, reqs>>

\* the getBlockHeader callback of _getBlockSummary builds the summary
MinerSummaryReturn ==
    /\ calc.fn = "minedBy"
    /\ ~calc.summary.done
    /\ LET trx == [hash |-> TxIds("h2")[1], outputs |-> calc.outputs]
       IN  calc' = [calc EXCEPT !.summary =
                       [done |-> TRUE,
                        minedBy |-> Summary("h2", NodeBlock("h2"),
                                            calc.height, trx).minedBy]]
    /\ UNCHANGED <<tipHeight, blockCache, blockSummaryCache, reqs>>

NextMiner == MinerTransformReturn \/ MinerSummaryReturn

SpecMiner == InitMiner /\ [][NextMiner]_vars

\* the rewards of MinerHeights, written out
RewardOf(height) ==
    CASE height = 0 -> 0
      [] height = 1 -> 500000
      [] height = 4000 -> 2000000000
      [] height = 2104400 -> 1000000000
      [] height = 21026000 -> 1953125

\* the address of the first output that has the biggest amount among the
\* outputs of the set Q of positions, Undefined when Q is empty
FirstBiggest(outputs, Q) ==
    IF Q = {} THEN Undefined
    ELSE LET best == CHOOSE i \in Q :
                        /\ \A j \in Q : outputs[j].satoshis <= outputs[i].satoshis
                        /\ \A j \in Q : outputs[j].satoshis = outputs[i].satoshis
                                             => i <= j
         IN  outputs[best].address

\* the positions of the outputs that are not exactly half the reward
NotHalf(outputs, reward) ==
    {i \in 1 .. Len(outputs) : 2 * outputs[i].satoshis # reward}

\* ... and that pay something
PayingNotHalf(outputs, reward) ==
    {i \in NotHalf(outputs, reward) : outputs[i].satoshis > 0}

\* the guesses made so far
Guesses ==
    IF calc.fn # "minedBy" THEN {}
    ELSE {g \in {calc.detail, calc.summary} : g.done}

\* C14 as stated: minedBy is the address of the first output that has the
\* biggest amount among the outputs whose amount is not half the reward, and
\* is absent when there is no such output.
C14_FirstBiggestNotHalf ==
    \A g \in Guesses :
        g.minedBy = FirstBiggest(calc.outputs,
                                 NotHalf(calc.outputs, RewardOf(calc.height)))

\* C14: minedBy is the address of the first output that has the biggest
\* amount among the outputs whose amount is positive and not half the
\* reward; an output of half the reward or of amount 0 is never chosen;
\* minedBy is absent when no output qualifies; outputs (500000000, A),
\* (1000000000, B), (1000000000, C) with half the reward 500000000 give B;
\* transformBlock and _getBlockSummary give the same result.
C14_FirstBiggestPayingNotHalf ==
    /\ \A g \in Guesses :
          /\ g.minedBy = FirstBiggest(calc.outputs,
                 PayingNotHalf(calc.outputs, RewardOf(calc.height)))
          /\ \A i \in 1 .. Len(calc.outputs) :
                 (\/ 2 * calc.outputs[i].satoshis = RewardOf(calc.height)
                  \/ calc.outputs[i].satoshis = 0)
                     => g.minedBy # calc.outputs[i].address
          /\ (calc.height = 2104400
              /\ calc.outputs = << [satoshis |-> 500000000, address |-> "A"],
                                   [satoshis |-> 1000000000, address |-> "B"],
                                   [satoshis |-> 1000000000, address |-> "C"] >>)
                 => g.minedBy = "B"
    /\ (calc.fn = "minedBy" /\ calc.detail.done /\ calc.summary.done)
          => calc.detail.minedBy = calc.summary.minedBy

\* both paths have guessed the miner of the outputs of the example
C14_Witness ==
    /\ calc.fn = "minedBy"
    /\ calc.height = 2104400
    /\ calc.outputs = << [satoshis |-> 500000000, address |-> "A"],
                         [satoshis |-> 1000000000, address |-> "B"],
                         [satoshis |-> 1000000000, address |-> "C"] >>
    /\ calc.detail = [done |-> TRUE, minedBy |-> "B"]
    /\ calc.summary = [done |-> TRUE, minedBy |-> "B"]

(***************************************************************************)
(* Failed collaborator calls and the caches.                               *)
(***************************************************************************)
\* C15: a record is written to the detail cache or the summary cache only by
\* a request all of whose collaborator calls returned without error: the
\* step in which a request's callback is given an error leaves both caches
\* as they were.
C15_FailedCallStoresNothing ==
    [][ \A r \in Reqs :
           (reqs'[r] # reqs[r] /\ reqs'[r].err.isErr) =>
              /\ blockCache' = blockCache
              /\ blockSummaryCache' = blockSummaryCache
      ]_vars

(***************************************************************************)
(* The order of the cache reads and collaborator calls of a listing.       *)
(***************************************************************************)
\* the block a cache read or collaborator call of a summary is about
HashOfCall(c) ==
    IF c.fn = "getDetailedTransaction"
    THEN CHOOSE h \in Hashes : TxIds(h)[1] = c.arg
    ELSE c.arg

\* the position of hash h in the sequence of hashes, 0 when it is not in it
PositionIn(hashes, h) ==
    IF \E i \in 1 .. Len(hashes) : hashes[i] = h
    THEN CHOOSE i \in 1 .. Len(hashes) : hashes[i] = h
    ELSE 0

\* the positions, in the retained hashes, of the calls a listing made after
\* it asked for the hashes
CallPositions(q) ==
    [i \in 1 .. Len(q.calls) - 1 |->
        PositionIn(q.hashes, HashOfCall(q.calls[i + 1]))]

\* C16: within one listing the retained hashes are processed one at a time,
\* newest first: the retained hashes are the head of the reversed sequence
\* the node returned, the summaries are delivered in that order, every cache
\* read and collaborator call is about a retained hash, they are made in the
\* order of the hashes, and none is made for a hash before the summaries of
\* all the hashes ahead of it are delivered; so a listing that failed on one
\* hash has made no call for a later hash.
C16_OneAtATime ==
    \A r \in Reqs :
       (reqs[r].op = "list" /\ Len(reqs[r].calls) >= 1) =>
          LET q == reqs[r]
              pos == CallPositions(q)
          IN  /\ q.calls[1].fn = "getBlockHashesByTimestamp"
              /\ Len(q.hashes) <= Len(q.returned)
              /\ \A i \in 1 .. Len(q.hashes) :
                    q.hashes[i] = q.returned[Len(q.returned) + 1 - i]
              /\ Len(q.blocks) <= Len(q.hashes)
              /\ \A i \in 1 .. Len(q.blocks) : q.blocks[i].hash = q.hashes[i]
              /\ \A i \in 1 .. Len(pos) :
                    /\ pos[i] >= 1
                    /\ pos[i] <= Len(q.blocks) + 1
                    /\ \A j \in 1 .. Len(pos) : i < j => pos[i] <= pos[j]
              /\ (q.pc = "done" /\ q.res.kind \in {"handleErrors", "thrown"}
                     /\ Len(pos) >= 1)
                    => \A i \in 1 .. Len(pos) : pos[i] <= Len(q.blocks) + 1

\* a listing of three hashes failed on the second one: the first summary is
\* delivered, calls were made for the first two hashes and none for the third
C16_Witness ==
    \E r \in Reqs :
       /\ reqs[r].op = "list" /\ reqs[r].pc = "done"
       /\ reqs[r].res.kind = "handleErrors"
       /\ Len(reqs[r].hashes) = 3
       /\ Len(reqs[r].blocks) = 1
       /\ \E i \in 1 .. Len(reqs[r].calls) :
             reqs[r].calls[i] = Call("getRawBlock", reqs[r].hashes[2])
       /\ \A i \in 1 .. Len(reqs[r].calls) :
             reqs[r].calls[i].arg # reqs[r].hashes[3]

(***************************************************************************)
(* getPoolInfo called directly (lines 350-360) on a coinbase script.       *)
(***************************************************************************)
\* how many characters the coinbase script has at most
MaxScriptLen == 3

\* the characters of the coinbase scripts: those of the search strings and
\* one of none of them
ScriptAlphabet == {"/", "P", "2", "a", ".", "b", "x"}

Scripts == UNION {[1 .. n -> ScriptAlphabet] : n \in 0 .. MaxScriptLen}

InitPool ==
    /\ tipHeight = InitTip
    /\ blockCache = <<>>
    /\ blockSummaryCache = <<>>
    /\ reqs = [r \in Reqs |-> IdleReq]
    /\ calc \in {[fn |-> "getPoolInfo", pc |-> "call", script |-> s,
                   poolInfo |-> NoPool] : s \in Scripts}

\* getPoolInfo(block) returns
PoolReturn ==
    /\ calc.fn = "getPoolInfo"
    /\ calc.pc = "call"
    /\ calc' = [calc EXCEPT !.pc = "returned",
                            !.poolInfo = getPoolInfo([script |-> calc.script])]
    /\ UNCHANGED <<tipHeight, blockCache, blockSummaryCache, reqs>>

NextPool == PoolReturn

SpecPool == InitPool /\ [][NextPool]_vars

\* k occurs in text as a substring
Substring(k, text) ==
    \E i \in 1 .. (Len(text) - Len(k) + 1) : SubSeq(text, i, i + Len(k) - 1) = k

\* the pool of the first configured search string, in insertion order, that
\* is a substring of the script; the empty object when there is none
FirstSubstringPool(script) ==
    LET hits == {i \in 1 .. Len(poolStrings) :
                    Substring(poolStrings[i].key, script)}
    IN  IF hits = {} THEN NoPool
        ELSE poolStrings[CHOOSE i \in hits : \A j \in hits : i <= j].value

\* C17: getPoolInfo returns the {poolName, url} of the first configured
\* search string, in insertion order, that occurs as a substring of the
\* coinbase script, and the empty object when none does.
C17_FirstSubstringWins ==
    (calc.fn = "getPoolInfo" /\ calc.pc = "returned") =>
        calc.poolInfo = FirstSubstringPool(calc.script)

(***************************************************************************)
(* The window and the cursor of a listing.                                 *)
(***************************************************************************)
\* the value of a startTimestamp text of StartTimestamps
StartTimestampValue(text) ==
    CASE text = <<"0">> -> 0
      [] text = <<"1", "7", "0", "4", "0", "6", "7", "2", "2", "5">> -> 1704067225

\* the resolved date of a listing: blockDate, or today's date without it
ResolvedDate(query) ==
    IF query.blockDate # <<>> THEN query.blockDate
    ELSE <<"2", "0", "2", "4", "-", "0", "1", "-", "0", "1">>

\* the start of the day, UTC, of the dates of BlockDates; not a number for a
\* text that is not a date
DayStart(dateStr) ==
    CASE dateStr = <<"2", "0", "2", "4", "-", "0", "1", "-", "0", "1">>
            -> Num(1704067200)
      [] dateStr = <<"2", "0", "2", "3", "-", "1", "2", "-", "3", "1">>
            -> Num(1703980800)
      [] OTHER -> NaN

\* the listing of slot r has asked the node for its hashes
Asked(r) == reqs[r].op = "list" /\ Len(reqs[r].calls) >= 1

\* what C18 says of everything but the upper bound: gte is the start of the
\* day of the resolved date, the node is asked for exactly (lte, gte), and
\* the cursor of the answer has currentTs = lte - 1, prev = the date of
\* gte - 86400 and current = the resolved date
WindowAndCursor(r) ==
    LET q == reqs[r]
    IN  /\ q.dateStr = ResolvedDate(q.query)
        /\ q.gte = DayStart(q.dateStr)
        /\ q.asked = [high |-> q.lte, low |-> q.gte]
        /\ Listed(r) =>
              /\ q.data.pagination.currentTs = Plus(q.lte, -1)
              /\ q.data.pagination.prev = formatTimestamp(Plus(q.gte, -86400))
              /\ q.data.pagination.current = q.dateStr

C19_FollowUpMakesProgress ==
    \A r \in Reqs :
       (Listed(r) /\ reqs[r].page.followed /\ reqs[r].page.hashes # {}) =>
          /\ HashesOf(reqs[r].data.blocks) \cap reqs[r].page.hashes = {}
          /\ ~reqs[r].lte.nan
          /\ reqs[r].lte.v < reqs[r].page.lte.v

(***************************************************************************)
(* What the detail cache holds.                                            *)
(***************************************************************************)
\* C20: every record in the detail cache has isMainChain = TRUE and at least
\* 6 confirmations, the node having reported at least 6 when it was stored;
\* a record of a block the node reports with the sentinel -1 is never put
\* in the cache, whatever the tip height.
C20_CachedAreMainChain ==
    /\ \A i \in 1 .. Len(blockCache) :
          /\ blockCache[i].value.isMainChain
          /\ blockCache[i].value.confirmations >= 6
          /\ blockCache[i].value.hash = blockCache[i].key
    /\ \A r \in Reqs :
          (reqs[r].op = "block" /\ reqs[r].pc = "done"
              /\ reqs[r].info # NoInfo /\ reqs[r].info.confirmations = -1) =>
             /\ ~reqs[r].reqBlock.isMainChain
             /\ \A i \in 1 .. Len(blockCache) :
                   blockCache[i].value # reqs[r].reqBlock

\* with the tip 6 blocks above it, a block the node reports off the main
\* chain has been looked up and is not in the cache, which holds a record
\* of another block
C20_Witness ==
    \E r \in Reqs :
       /\ reqs[r].op = "block" /\ reqs[r].pc = "done"
       /\ reqs[r].res = ResNext
       /\ reqs[r].info # NoInfo
       /\ reqs[r].info.confirmations = -1
       /\ ~reqs[r].reqBlock.isMainChain
       /\ tipHeight - reqs[r].info.height + 1 >= 6
       /\ ~CacheHas(blockCache, reqs[r].hash)
       /\ blockCache # <<>>

=============================================================================
